---- MODULE Spec2Model ----
(***************************************************************************)
(* examples/python/conditional_loop.py: the accumulator loop main() and    *)
(* the module-level caller, executed one source line per step.             *)
(***************************************************************************)
EXTENDS Integers, Sequences, FiniteSets, TLC

VARIABLES
    pc,       \* the line about to execute: "idle" (module level, no call in
              \* progress), "L5" .. "L12" inside main(), "L15" (assignment of
              \* the returned value to result), "error" (an exception
              \* propagated out of main() and ended the process)
    frame,    \* the local variables of the running main(): name -> integer
    it,       \* the range(10) iterator of line 6: << >> before the for
              \* statement created it, <<n>> when n is the next index
    retval,   \* <<v>> once the return statement of line 12 handed back v,
              \* << >> before
    globals,  \* module-level variables: name -> integer (only "result")
    stdout,   \* lines written to standard output, oldest first
    calls,    \* number of invocations of main() started so far
    start,    \* history: Len(stdout) when the current invocation was called
    visited,  \* history: indices bound by line 6 in the current invocation
    hits,     \* history: indices at which the breakpoint condition of line 2
              \* held on arrival at line 7, in the current invocation
    runs      \* history: one record [out, ret] per completed invocation

vars == <<pc, frame, it, retval, globals, stdout, calls, start, visited, hits, runs>>

\* Number of invocations of main() the caller makes at most.
MaxCalls == 3

\* range(10) on line 6.
RangeStop == 10

\* The multiplier of line 7.
Factor == 2

Empty == << >>

Bound(f, name) == name \in DOMAIN f

\* f with name (re)bound to v, as a Python assignment does.
Assign(f, name, v) == [n \in DOMAIN f \cup {name} |-> IF n = name THEN v ELSE f[n]]

----------------------------------------------------------------------------
\* Decimal rendering of an integer, as the f-string replacement fields do.

Digit(d) == <<"0", "1", "2", "3", "4", "5", "6", "7", "8", "9">>[d + 1]

RECURSIVE Nat2Str(_)
Nat2Str(n) == IF n < 10 THEN Digit(n) ELSE Nat2Str(n \div 10) \o Digit(n % 10)

Str(n) == IF n < 0 THEN "-" \o Nat2Str(-n) ELSE Nat2Str(n)

\* f"i={i}, value={value}, total={total}"
IterLine(i, value, total) ==
    "i=" \o Str(i) \o ", value=" \o Str(value) \o ", total=" \o Str(total)

\* f"Final total: {total}"
FinalLine(total) == "Final total: " \o Str(total)

\* The debugger condition named by the comment of line 2, over the locals.
BreakCondition(f) == f["i"] > 5

----------------------------------------------------------------------------
Init ==
    /\ pc = "idle"
    /\ frame = Empty
    /\ it = << >>
    /\ retval = << >>
    /\ globals = Empty
    /\ stdout = << >>
    /\ calls = 0
    /\ start = 0
    /\ visited = << >>
    /\ hits = << >>
    /\ runs = << >>

\* line 15, the call: main() is entered with a fresh frame.
Call ==
    /\ pc = "idle"
    /\ calls < MaxCalls
    /\ pc' = "L5"
    /\ frame' = Empty
    /\ it' = << >>
    /\ retval' = << >>
    /\ calls' = calls + 1
    /\ start' = Len(stdout)
    /\ visited' = << >>
    /\ hits' = << >>
    /\ UNCHANGED <<globals, stdout, runs>>

\* total kept across invocations: it starts from the last returned value.
Line5_Carry ==
    /\ pc = "L5"
    /\ frame' = Assign(frame, "total", IF Bound(globals, "result") THEN globals["result"] ELSE 0)
    /\ pc' = "L6"
    /\ UNCHANGED <<it, retval, globals, stdout, calls, start, visited, hits, runs>>

\* total = value = 0 written for total = 0.
Line5_AlsoValue ==
    /\ pc = "L5"
    /\ frame' = Assign(Assign(frame, "total", 0), "value", 0)
    /\ pc' = "L6"
    /\ UNCHANGED <<it, retval, globals, stdout, calls, start, visited, hits, runs>>

\* line 5: total = 0
Line5 ==
    /\ pc = "L5"
    /\ frame' = Assign(frame, "total", 0)
    /\ pc' = "L6"
    /\ UNCHANGED <<it, retval, globals, stdout, calls, start, visited, hits, runs>>

\* range(1, 10) written for range(10): the loop starts at index 1.
Line6_FromOne ==
    /\ pc = "L6"
    /\ LET n == IF it = << >> THEN 1 ELSE it[1]
       IN  IF n < RangeStop
           THEN /\ frame' = Assign(frame, "i", n)
                /\ it' = <<n + 1>>
                /\ pc' = "L7"
                /\ visited' = Append(visited, n)
                /\ hits' = IF BreakCondition(frame') THEN Append(hits, n) ELSE hits
           ELSE /\ pc' = "L11"
                /\ it' = <<n>>
                /\ UNCHANGED <<frame, visited, hits>>
    /\ UNCHANGED <<retval, globals, stdout, calls, start, runs>>

\* An inclusive upper bound: the loop also runs for index 10.
Line6_OffByOne ==
    /\ pc = "L6"
    /\ LET n == IF it = << >> THEN 0 ELSE it[1]
       IN  IF n <= RangeStop
           THEN /\ frame' = Assign(frame, "i", n)
                /\ it' = <<n + 1>>
                /\ pc' = "L7"
                /\ visited' = Append(visited, n)
                /\ hits' = IF BreakCondition(frame') THEN Append(hits, n) ELSE hits
           ELSE /\ pc' = "L11"
                /\ it' = <<n>>
                /\ UNCHANGED <<frame, visited, hits>>
    /\ UNCHANGED <<retval, globals, stdout, calls, start, runs>>

\* line 6: for i in range(10): on the first arrival the iterator is created
\* at index 0; then bind the next index and enter the body, or leave the
\* loop when the iterator is exhausted.
Line6 ==
    /\ pc = "L6"
    /\ LET n == IF it = << >> THEN 0 ELSE it[1]
       IN  IF n < RangeStop
           THEN /\ frame' = Assign(frame, "i", n)
                /\ it' = <<n + 1>>
                /\ pc' = "L7"
                /\ visited' = Append(visited, n)
                /\ hits' = IF BreakCondition(frame') THEN Append(hits, n) ELSE hits
           ELSE /\ pc' = "L11"
                /\ it' = <<n>>
                /\ UNCHANGED <<frame, visited, hits>>
    /\ UNCHANGED <<retval, globals, stdout, calls, start, runs>>

\* Reading a local that is not bound raises UnboundLocalError; nothing in the
\* file catches it, so it ends the run.
Raise ==
    /\ pc' = "error"
    /\ UNCHANGED <<frame, it, retval, globals, stdout, calls, start, visited, hits, runs>>

\* value = i + 2 written for value = i * 2.
Line7_AddsTwo ==
    /\ pc = "L7"
    /\ IF Bound(frame, "i")
       THEN /\ frame' = Assign(frame, "value", frame["i"] + Factor)
            /\ pc' = "L8"
            /\ UNCHANGED <<it, retval, globals, stdout, calls, start, visited, hits, runs>>
       ELSE Raise

\* The product bound to a misspelt name, val.
Line7_WrongName ==
    /\ pc = "L7"
    /\ IF Bound(frame, "i")
       THEN /\ frame' = Assign(frame, "val", frame["i"] * Factor)
            /\ pc' = "L8"
            /\ UNCHANGED <<it, retval, globals, stdout, calls, start, visited, hits, runs>>
       ELSE Raise

\* line 7: value = i * 2
Line7 ==
    /\ pc = "L7"
    /\ IF Bound(frame, "i")
       THEN /\ frame' = Assign(frame, "value", frame["i"] * Factor)
            /\ pc' = "L8"
            /\ UNCHANGED <<it, retval, globals, stdout, calls, start, visited, hits, runs>>
       ELSE Raise

\* total = value written for total += value.
Line8_Overwrite ==
    /\ pc = "L8"
    /\ IF Bound(frame, "value")
       THEN /\ frame' = Assign(frame, "total", frame["value"])
            /\ pc' = "L9"
            /\ UNCHANGED <<it, retval, globals, stdout, calls, start, visited, hits, runs>>
       ELSE Raise

\* line 8: total += value
Line8 ==
    /\ pc = "L8"
    /\ IF Bound(frame, "total") /\ Bound(frame, "value")
       THEN /\ frame' = Assign(frame, "total", frame["total"] + frame["value"])
            /\ pc' = "L9"
            /\ UNCHANGED <<it, retval, globals, stdout, calls, start, visited, hits, runs>>
       ELSE Raise

\* The summary print indented into the loop body: it follows every
\* per-iteration line.
Line9_SummaryInLoop ==
    /\ pc = "L9"
    /\ IF Bound(frame, "i") /\ Bound(frame, "value") /\ Bound(frame, "total")
       THEN /\ stdout' = stdout \o <<IterLine(frame["i"], frame["value"], frame["total"]),
                                     FinalLine(frame["total"])>>
            /\ pc' = "L6"
            /\ UNCHANGED <<frame, it, retval, globals, calls, start, visited, hits, runs>>
       ELSE Raise

\* line 9: print(f"i={i}, value={value}, total={total}"), then back to line 6
Line9 ==
    /\ pc = "L9"
    /\ IF Bound(frame, "i") /\ Bound(frame, "value") /\ Bound(frame, "total")
       THEN /\ stdout' = Append(stdout, IterLine(frame["i"], frame["value"], frame["total"]))
            /\ pc' = "L6"
            /\ UNCHANGED <<frame, it, retval, globals, calls, start, visited, hits, runs>>
       ELSE Raise

\* line 11: print(f"Final total: {total}")
Line11 ==
    /\ pc = "L11"
    /\ IF Bound(frame, "total")
       THEN /\ stdout' = Append(stdout, FinalLine(frame["total"]))
            /\ pc' = "L12"
            /\ UNCHANGED <<frame, it, retval, globals, calls, start, visited, hits, runs>>
       ELSE Raise

\* return value written for return total.
Line12_ReturnsValue ==
    /\ pc = "L12"
    /\ IF Bound(frame, "value")
       THEN /\ retval' = <<frame["value"]>>
            /\ frame' = Empty
            /\ pc' = "L15"
            /\ UNCHANGED <<it, globals, stdout, calls, start, visited, hits, runs>>
       ELSE Raise

\* line 12: return total; the frame of main() is discarded.
Line12 ==
    /\ pc = "L12"
    /\ IF Bound(frame, "total")
       THEN /\ retval' = <<frame["total"]>>
            /\ frame' = Empty
            /\ pc' = "L15"
            /\ UNCHANGED <<it, globals, stdout, calls, start, visited, hits, runs>>
       ELSE Raise

\* The lines the current invocation has written so far.
Out == SubSeq(stdout, start + 1, Len(stdout))

\* line 15, the assignment: result = <returned value>
Line15 ==
    /\ pc = "L15"
    /\ globals' = Assign(globals, "result", retval[1])
    /\ runs' = Append(runs, [out |-> Out, ret |-> retval[1]])
    /\ pc' = "idle"
    /\ UNCHANGED <<frame, it, retval, stdout, calls, start, visited, hits>>

Next ==
    \/ Call
    \/ Line5
    \/ Line6
    \/ Line7
    \/ Line8
    \/ Line9
    \/ Line11
    \/ Line12
    \/ Line15

Spec == Init /\ [][Next]_vars

\* Python runs a started statement to completion: execution never stalls
\* while a step is enabled.
FairSpec == Spec /\ WF_vars(Next)

----------------------------------------------------------------------------
\* Reading the output back: the fields a written line reports.

DigitChars == {Digit(d) : d \in 0..9}

IsNat(s) == Len(s) >= 1 /\ \A k \in 1..Len(s) : SubSeq(s, k, k) \in DigitChars

DigitVal(c) == CHOOSE d \in 0..9 : Digit(d) = c

RECURSIVE ParseNat(_)
ParseNat(s) ==
    IF Len(s) = 1 THEN DigitVal(s)
    ELSE 10 * ParseNat(SubSeq(s, 1, Len(s) - 1)) + DigitVal(SubSeq(s, Len(s), Len(s)))

\* The pairs <<p, q>> of end positions of the i and value fields under which
\* s reads "i=<nat>, value=<nat>, total=<nat>".
IterSplits(s) ==
    {pq \in (1..Len(s)) \X (1..Len(s)) :
        LET p == pq[1]
            q == pq[2]
        IN  /\ 3 <= p /\ p + 9 <= q /\ q + 9 <= Len(s)
            /\ SubSeq(s, 1, 2) = "i="
            /\ IsNat(SubSeq(s, 3, p))
            /\ SubSeq(s, p + 1, p + 8) = ", value="
            /\ IsNat(SubSeq(s, p + 9, q))
            /\ SubSeq(s, q + 1, q + 8) = ", total="
            /\ IsNat(SubSeq(s, q + 9, Len(s)))}

IsIterLine(s) == IterSplits(s) # {}

IterFields(s) ==
    LET pq == CHOOSE x \in IterSplits(s) : TRUE
    IN  [i     |-> ParseNat(SubSeq(s, 3, pq[1])),
         value |-> ParseNat(SubSeq(s, pq[1] + 9, pq[2])),
         total |-> ParseNat(SubSeq(s, pq[2] + 9, Len(s)))]

FinalPrefix == "Final total: "

IsFinalLine(s) ==
    /\ Len(s) > Len(FinalPrefix)
    /\ SubSeq(s, 1, Len(FinalPrefix)) = FinalPrefix
    /\ IsNat(SubSeq(s, Len(FinalPrefix) + 1, Len(s)))

FinalField(s) == ParseNat(SubSeq(s, Len(FinalPrefix) + 1, Len(s)))

\* sum of 2*i for i in 0..k
RECURSIVE SumEven(_)
SumEven(k) == IF k <= 0 THEN 0 ELSE 2 * k + SumEven(k - 1)

\* main() is between its call and its return.
Running == pc \in {"L5", "L6", "L7", "L8", "L9", "L11", "L12"}

\* The loop of the current invocation has been left.
LoopDone == pc \in {"L11", "L12", "L15"}

----------------------------------------------------------------------------
\* C1: every per-iteration line written reports, for its index k, the total
\* after that iteration's addition: total = sum of 2*i for i in 0..k =
\* k*(k+1); the first line written is "i=0, value=0, total=0" and the tenth
\* is "i=9, value=18, total=90".
C1_TotalReported ==
    /\ \A n \in 1..Len(stdout) :
          IsIterLine(stdout[n]) =>
              LET f == IterFields(stdout[n])
              IN  /\ f.total = SumEven(f.i)
                  /\ f.total = f.i * (f.i + 1)
    /\ Len(Out) >= 1 => Out[1] = "i=0, value=0, total=0"
    /\ Len(Out) >= 10 => Out[10] = "i=9, value=18, total=90"

C1_Witness ==
    /\ Len(Out) >= 10
    /\ IsIterLine(Out[1]) /\ IterFields(Out[1]).total = 0
    /\ IsIterLine(Out[10]) /\ IterFields(Out[10]).total = 90

\* C2: every invocation of main() returns the integer 90.
C2_Returns90 ==
    /\ retval # << >> => retval = <<90>>
    /\ \A n \in 1..Len(runs) : runs[n].ret = 90
    /\ Bound(globals, "result") => globals["result"] = 90

C2_Witness == pc = "L15" /\ retval = <<90>> /\ Len(runs) >= 1

\* C3: an invocation writes exactly 11 lines: 10 per-iteration lines of the
\* form "i=.., value=.., total=.." and then one summary line
\* "Final total: .."; the summary is the last line written by the invocation.
C3_ElevenLines ==
    /\ Len(Out) <= 11
    /\ \A n \in 1..Len(Out) : IF n <= 10 THEN IsIterLine(Out[n]) /\ ~IsFinalLine(Out[n])
                                         ELSE IsFinalLine(Out[n]) /\ ~IsIterLine(Out[n])
    /\ Running /\ pc # "L12" => Len(Out) <= 10
    /\ pc \in {"L12", "L15"} => Len(Out) = 11
    /\ \A r \in 1..Len(runs) :
          /\ Len(runs[r].out) = 11
          /\ \A n \in 1..10 : IsIterLine(runs[r].out[n])
          /\ IsFinalLine(runs[r].out[11])
    /\ pc = "idle" => Len(stdout) = 11 * Len(runs)

C3_Witness == pc = "idle" /\ Len(runs) >= 2 /\ Len(Out) = 11 /\ IsFinalLine(Out[11])

\* C4: the value main() returns is the total its summary line printed, and
\* both are 90: total does not change between the summary print and the return.
C4_ReturnIsPrinted ==
    /\ pc = "L12" =>
          /\ IsFinalLine(Out[Len(Out)])
          /\ Bound(frame, "total")
          /\ FinalField(Out[Len(Out)]) = frame["total"]
    /\ pc = "L15" =>
          /\ IsFinalLine(Out[Len(Out)])
          /\ retval = <<FinalField(Out[Len(Out)])>>
          /\ Out[Len(Out)] = "Final total: 90"
    /\ \A r \in 1..Len(runs) :
          /\ IsFinalLine(runs[r].out[Len(runs[r].out)])
          /\ FinalField(runs[r].out[Len(runs[r].out)]) = runs[r].ret

C4_Witness == pc = "L15" /\ Out[Len(Out)] = "Final total: 90" /\ retval = <<90>>

\* C5: every per-iteration line reports value = 2*i for its index i, and in
\* every iteration value holds 2*i from the moment line 7 has executed until
\* the line is printed.
C5_ValueIsTwiceIndex ==
    /\ \A n \in 1..Len(stdout) :
          IsIterLine(stdout[n]) =>
              IterFields(stdout[n]).value = 2 * IterFields(stdout[n]).i
    /\ \A n \in 1..Len(Out) : n <= 10 => IsIterLine(Out[n]) /\ IterFields(Out[n]).i = n - 1
    /\ pc \in {"L8", "L9"} =>
          /\ Bound(frame, "i") /\ Bound(frame, "value")
          /\ frame["value"] = 2 * frame["i"]

C5_Witness == pc = "L9" /\ frame["i"] = 9 /\ frame["value"] = 18

\* C6: the loop binds the indices 0, 1, ..., 9 in ascending order, each
\* exactly once, and leaves only after index 9; inside an iteration value is
\* computed first, then added to total, then the line is written.
C6_AscendingOnce ==
    /\ Len(visited) <= 10
    /\ \A n \in 1..Len(visited) : visited[n] = n - 1
    /\ LoopDone => Len(visited) = 10
    /\ pc \in {"L7", "L8", "L9"} =>
          /\ Bound(frame, "i") /\ Bound(frame, "total")
          /\ frame["i"] = visited[Len(visited)]
          /\ Len(Out) = frame["i"]
    /\ pc = "L7" => frame["total"] = SumEven(frame["i"] - 1)
    /\ pc = "L8" => frame["value"] = 2 * frame["i"] /\ frame["total"] = SumEven(frame["i"] - 1)
    /\ pc = "L9" => frame["value"] = 2 * frame["i"] /\ frame["total"] = SumEven(frame["i"])
    /\ pc = "L6" => Len(Out) = Len(visited)

C6_Witness == pc = "L11" /\ visited = <<0, 1, 2, 3, 4, 5, 6, 7, 8, 9>>

\* C7: every invocation of main() terminates: once entered it reaches the
\* return with the summary line written, index 9 processed and 90 returned,
\* and no exception is ever raised.
C7_Terminates ==
    /\ [](pc # "error")
    /\ (pc = "L5") ~> (/\ pc = "L15"
                       /\ retval = <<90>>
                       /\ Len(visited) = 10 /\ visited[10] = 9
                       /\ Len(Out) = 11 /\ IsFinalLine(Out[11]))
    /\ (pc = "L15") ~> (pc = "idle" /\ Bound(globals, "result"))

C7_Witness == pc = "idle" /\ Len(runs) = calls /\ calls >= 1 /\ globals["result"] = 90

\* C8: all invocations of main() write the same 11 lines and return the same
\* value; every invocation starts from an empty frame, a fresh iterator and
\* total = 0, whatever earlier invocations left behind.
C8_Idempotent ==
    /\ \A a, b \in 1..Len(runs) : runs[a] = runs[b]
    /\ pc \in {"L15", "idle"} /\ Len(runs) >= 1 /\ Len(Out) = 11 => Out = runs[1].out
    /\ pc = "L5" => frame = Empty /\ it = << >> /\ Out = << >>
    /\ pc = "L6" /\ it = << >> => frame = [n \in {"total"} |-> 0]

C8_Witness == Len(runs) >= 2 /\ pc = "L6" /\ it = << >> /\ Bound(globals, "result")

\* C9: the condition i > 5 evaluated on arrival at line 7 holds exactly for
\* i = 6, 7, 8, 9, in that order, four times per invocation, and is false at
\* every arrival with i in 0..5.
C9_BreakpointHits ==
    /\ pc = "L7" =>
          /\ frame["i"] \in 0..9
          /\ BreakCondition(frame) <=> frame["i"] \in {6, 7, 8, 9}
          /\ frame["i"] \in 0..5 => ~BreakCondition(frame)
    /\ \A n \in 1..Len(hits) : hits[n] = 5 + n
    /\ Len(hits) = IF Len(visited) <= 6 THEN 0 ELSE Len(visited) - 6
    /\ LoopDone => hits = <<6, 7, 8, 9>>

C9_Witness == pc = "L11" /\ hits = <<6, 7, 8, 9>>

\* C10: on every arrival at line 7 with index i, total = i*(i-1); value is
\* unbound when i = 0 and still holds 2*(i-1) when i >= 1; total never
\* decreases during an invocation and is always even.
C10_ArrivalState ==
    /\ [](pc = "L7" =>
            /\ frame["total"] = frame["i"] * (frame["i"] - 1)
            /\ frame["i"] = 0 => ~Bound(frame, "value")
            /\ frame["i"] >= 1 => Bound(frame, "value") /\ frame["value"] = 2 * (frame["i"] - 1))
    /\ [](Bound(frame, "total") => frame["total"] % 2 = 0 /\ frame["total"] >= 0)
    /\ [][Bound(frame, "total") /\ Bound(frame', "total") => frame'["total"] >= frame["total"]]_vars

C10_Witness == pc = "L7" /\ frame["i"] = 9 /\ frame["total"] = 72 /\ frame["value"] = 16

====
